---- MODULE Spec2Model ----
(***************************************************************************)
(* Model of the Google Photos link extractor (src/main.py): the /extract   *)
(* handler, the fetch / locate / decode / extract / build pipeline of      *)
(* get_google_photos_links, the shared HTTP client and the shutdown hook.  *)
(*                                                                         *)
(* Python values are tagged records [kind, val]; Python strings are        *)
(* sequences of one-character strings, so that indexing, str() and         *)
(* f-string formatting are computed rather than assumed.                   *)
(***************************************************************************)
EXTENDS Integers, Sequences, FiniteSets, TLC

VARIABLES
    reqs,     \* request id -> [pc, url, fetches, resp]: the in-flight /extract tasks
    client,   \* the shared httpx.AsyncClient: "open" or "closed"
    server,   \* the process: "running" or "stopped"
    remote    \* the remote site: host needle -> the outcome of a GET of a URL there

vars == <<reqs, client, server, remote>>

(***************************************************************************)
(* Bounds of the model.                                                    *)
(***************************************************************************)
NReq == 2         \* number of /extract requests a behaviour issues
MaxUrlLen == 2    \* URL length, in pieces
MaxItems == 2     \* elements of video_info_block after the first two
MaxQ == 2         \* quality variants in quality_info

(***************************************************************************)
(* Python values.                                                          *)
(***************************************************************************)
None == [kind |-> "none", val |-> 0]
PyInt(n) == [kind |-> "int", val |-> n]
PyStr(s) == [kind |-> "str", val |-> s]
PyList(s) == [kind |-> "list", val |-> s]
\* a dict is the sequence of its <<key, value>> items, in insertion order
PyDict(s) == [kind |-> "dict", val |-> s]

\* the outcome of evaluating an expression: a value, or a raised exception
Ok(v) == [exc |-> "none", msg |-> "", val |-> v]
Raise(e, m) == [exc |-> e, msg |-> m, val |-> None]

TypeName(v) ==
    CASE v.kind = "int" -> "int"
      [] v.kind = "none" -> "NoneType"
      [] v.kind = "str" -> "str"
      [] v.kind = "list" -> "list"
      [] v.kind = "dict" -> "dict"

DigitChar == <<"0", "1", "2", "3", "4", "5", "6", "7", "8", "9">>

\* str(n) for a natural number n
RECURSIVE IntToStr(_)
IntToStr(n) ==
    IF n < 10 THEN <<DigitChar[n + 1]>>
    ELSE IntToStr(n \div 10) \o <<DigitChar[(n % 10) + 1]>>

\* v[i] for a literal index i >= 0
Index(v, i) ==
    CASE v.kind = "list" ->
            IF i < Len(v.val) THEN Ok(v.val[i + 1])
            ELSE Raise("IndexError", "list index out of range")
      [] v.kind = "str" ->
            IF i < Len(v.val) THEN Ok(PyStr(<<v.val[i + 1]>>))
            ELSE Raise("IndexError", "string index out of range")
      [] v.kind = "dict" -> Raise("KeyError", DigitChar[i + 1])
      [] OTHER -> Raise("TypeError", "'" \o TypeName(v) \o "' object is not subscriptable")

\* d.values(), in insertion order
DictValues(d) == [j \in 1..Len(d.val) |-> d.val[j][2]]

\* d.get(key, default)
DictGet(d, key, default) ==
    IF d.kind # "dict"
    THEN Raise("AttributeError", "'" \o TypeName(d) \o "' object has no attribute 'get'")
    ELSE LET hits == {j \in 1..Len(d.val) : d.val[j][1] = key}
         IN  IF hits = {} THEN Ok(default)
             ELSE Ok(d.val[CHOOSE j \in hits : \A k \in hits : k <= j][2])

\* bool(v)
Truthy(v) ==
    CASE v.kind = "none" -> FALSE
      [] v.kind = "int" -> v.val # 0
      [] OTHER -> Len(v.val) > 0

RECURSIVE Repr(_)
RECURSIVE JoinRepr(_, _)
RECURSIVE JoinItems(_, _)
\* ", ".join(repr(x) for x in s[k:])
JoinRepr(s, k) ==
    IF k > Len(s) THEN <<>>
    ELSE Repr(s[k]) \o (IF k < Len(s) THEN <<",", " ">> ELSE <<>>) \o JoinRepr(s, k + 1)
JoinItems(s, k) ==
    IF k > Len(s) THEN <<>>
    ELSE <<"'", s[k][1], "'", ":", " ">> \o Repr(s[k][2])
         \o (IF k < Len(s) THEN <<",", " ">> ELSE <<>>) \o JoinItems(s, k + 1)
\* repr(v)
Repr(v) ==
    CASE v.kind = "str" -> <<"'">> \o v.val \o <<"'">>
      [] v.kind = "int" -> IntToStr(v.val)
      [] v.kind = "none" -> <<"N", "o", "n", "e">>
      [] v.kind = "list" -> <<"[">> \o JoinRepr(v.val, 1) \o <<"]">>
      [] v.kind = "dict" -> <<"{">> \o JoinItems(v.val, 1) \o <<"}">>

\* str(v), as an f-string field formats v
Str(v) == IF v.kind = "str" THEN v.val ELSE Repr(v)

(***************************************************************************)
(* Responses.  An HTTPException(status, detail) becomes a JSON body with   *)
(* that detail; an exception nobody catches becomes the server's bare 500, *)
(* which carries no detail.                                                *)
(***************************************************************************)
Detail(text, arg) == [text |-> text, arg |-> arg]
NoDetail == Detail("", "")
HTTPException(status, detail) == [status |-> status, detail |-> detail, body |-> None]
Unhandled(exc) == [status |-> 500, detail |-> NoDetail, body |-> None]
Return(result) == [status |-> 200, detail |-> NoDetail, body |-> result]
NoResp == [status |-> 0, detail |-> NoDetail, body |-> None]

(***************************************************************************)
(* URL validation (extract_links).  A URL is a sequence of pieces; the two *)
(* accepted hosts are two-piece substrings.                                *)
(***************************************************************************)
GooGl == <<"photos.", "app.goo.gl">>         \* "photos.app.goo.gl"
GoogleCom == <<"photos.", "google.com">>     \* "photos.google.com"

\* needle in url
Contains(url, needle) ==
    \E i \in 1..Len(url) :
        /\ i + Len(needle) - 1 <= Len(url)
        /\ SubSeq(url, i, i + Len(needle) - 1) = needle

\* a faulty variant: only the empty URL is rejected
IsInvalidURLEmptyOnly(url) == url = <<>>

\* not URL or ("photos.app.goo.gl" not in URL and "photos.google.com" not in URL)
IsInvalidURL(url) ==
    url = <<>> \/ (~Contains(url, GooGl) /\ ~Contains(url, GoogleCom))

(***************************************************************************)
(* Fetcher.                                                                *)
(***************************************************************************)
\* what one GET can come back with: a transport error, or a status and a page
FetchFailure(err) == [err |-> err, status |-> 0, page |-> [marker |-> FALSE, ok |-> FALSE, tree |-> None]]
StatusOnly(code) == [err |-> "none", status |-> code, page |-> [marker |-> FALSE, ok |-> FALSE, tree |-> None]]
PageNoMarker == [err |-> "none", status |-> 200, page |-> [marker |-> FALSE, ok |-> FALSE, tree |-> None]]
PageMalformed == [err |-> "none", status |-> 200, page |-> [marker |-> TRUE, ok |-> FALSE, tree |-> None]]
PageWith(tree) == [err |-> "none", status |-> 200, page |-> [marker |-> TRUE, ok |-> TRUE, tree |-> tree]]

\* the host a URL is served by
HostOf(url) == IF Contains(url, GooGl) THEN "photos.app.goo.gl" ELSE "photos.google.com"
Hosts == {"photos.app.goo.gl", "photos.google.com"}

\* response = await http_client.get(url); response.raise_for_status()
Fetch(o) ==
    IF o.err # "none" THEN Raise(o.err, o.err)
    ELSE IF o.status < 200 \/ o.status > 299 THEN Raise("HTTPStatusError", "error response")
    ELSE Ok(o.page)

\* except httpx.RequestError: the transport errors, not HTTPStatusError
IsRequestError(exc) == exc \in {"ConnectError", "ReadTimeout"}

\* a faulty variant: the pool is closed when the context manager exits
ManagedClientExitClosing(c) == "closed"

\* managed_client's finally clause: pass
ManagedClientExit(c) == c

(***************************************************************************)
(* Block locator and lenient decoder.                                      *)
(***************************************************************************)
\* re.search(r'AF_initDataCallback\((.*?)\);</script>', response.text, re.DOTALL)
Locate(page) == page.marker

\* demjson3.decode(match.group(1), strict=False)
Decode(page) ==
    IF page.ok THEN Ok(page.tree) ELSE Raise("JSONDecodeError", "Unexpected text")

(***************************************************************************)
(* Field extractor: the scan for the stream data block.                    *)
(***************************************************************************)
\* isinstance(value, list) and len(value) > 7 and isinstance(value[7], list)
Qualifies(value) ==
    /\ value.kind = "list"
    /\ Len(value.val) > 7
    /\ value.val[8].kind = "list"

\* a faulty variant: every element's values are scanned, a non-mapping standing for itself
ItemValuesAnyItem(item) == IF item.kind = "dict" THEN DictValues(item) ELSE <<item>>

\* if isinstance(item, dict): for value in item.values()
ItemValues(item) == IF item.kind = "dict" THEN DictValues(item) ELSE <<>>

\* a faulty variant: the inner loop has no break, so the last qualifying value stays
RECURSIVE ScanValuesNoBreak(_, _, _)
ScanValuesNoBreak(values, j, sdb) ==
    IF j > Len(values) THEN sdb
    ELSE ScanValuesNoBreak(values, j + 1, IF Qualifies(values[j]) THEN values[j] ELSE sdb)

\* the inner loop from values[j] on: the first qualifying value is taken, then break
RECURSIVE ScanValues(_, _, _)
ScanValues(values, j, sdb) ==
    IF j > Len(values) THEN sdb
    ELSE IF Qualifies(values[j]) THEN values[j]
    ELSE ScanValues(values, j + 1, sdb)

\* the outer loop from items[i] on: if stream_data_block: break
RECURSIVE ScanItems(_, _, _)
ScanItems(items, i, sdb) ==
    IF i > Len(items) THEN sdb
    ELSE LET found == ScanValues(ItemValues(items[i]), 1, sdb)
         IN  IF Truthy(found) THEN found ELSE ScanItems(items, i + 1, found)

(***************************************************************************)
(* Response builder.                                                       *)
(***************************************************************************)
Resolution == <<"R", "e", "s", "o", "l", "u", "t", "i", "o", "n", " ">>
PosterSuffix == <<"=", "w", "1", "9", "2", "0", "-", "h", "1", "0", "8", "0", "-", "n", "o">>

\* quality_map = {'37': '1080p', '22': '720p', '18': '360p', '36': '180p'}
quality_map ==
    (<<"3", "7">> :> <<"1", "0", "8", "0", "p">>) @@
    (<<"2", "2">> :> <<"7", "2", "0", "p">>) @@
    (<<"1", "8">> :> <<"3", "6", "0", "p">>) @@
    (<<"3", "6">> :> <<"1", "8", "0", "p">>)

\* quality_map.get(str(quality[0]), f"Resolution {quality[1]}x{quality[2]}"):
\* both arguments are evaluated before the lookup
Label(quality) ==
    LET c == Index(quality, 0)
        w == Index(quality, 1)
        h == Index(quality, 2)
    IN  IF c.exc # "none" THEN c
        ELSE IF w.exc # "none" THEN w
        ELSE IF h.exc # "none" THEN h
        ELSE LET key == Str(c.val)
                 fallback == Resolution \o Str(w.val) \o <<"x">> \o Str(h.val)
             IN  Ok(PyStr(IF key \in DOMAIN quality_map THEN quality_map[key] ELSE fallback))

\* a faulty variant: the variant's label stands where its code belongs
StreamUrlOfLabel(base_url, quality) ==
    Ok(PyStr(Str(base_url) \o <<"=", "m">> \o Label(quality).val.val))

\* f"{base_url}=m{quality[0]}"
StreamUrl(base_url, quality) ==
    LET c == Index(quality, 0)
    IN  IF c.exc # "none" THEN c
        ELSE Ok(PyStr(Str(base_url) \o <<"=", "m">> \o Str(c.val)))

\* {'label': ..., 'url': ...}
StreamEntry(base_url, quality) ==
    LET l == Label(quality)
        u == StreamUrl(base_url, quality)
    IN  IF l.exc # "none" THEN l
        ELSE IF u.exc # "none" THEN u
        ELSE Ok([kind |-> "stream", val |-> [label |-> l.val.val, url |-> u.val.val]])

\* a faulty variant: the comprehension runs over quality_info[1:]
RECURSIVE StreamUrlsSkipFirst(_, _, _)
StreamUrlsSkipFirst(base_url, quality_info, k) ==
    IF k + 1 > Len(quality_info) THEN Ok(PyList(<<>>))
    ELSE LET e == StreamEntry(base_url, quality_info[k + 1])
             rest == StreamUrlsSkipFirst(base_url, quality_info, k + 1)
         IN  IF e.exc # "none" THEN e
             ELSE IF rest.exc # "none" THEN rest
             ELSE Ok(PyList(<<e.val>> \o rest.val.val))

\* stream_urls = [{...} for quality in quality_info], from quality_info[k] on
RECURSIVE StreamUrls(_, _, _)
StreamUrls(base_url, quality_info, k) ==
    IF k > Len(quality_info) THEN Ok(PyList(<<>>))
    ELSE LET e == StreamEntry(base_url, quality_info[k])
             rest == StreamUrls(base_url, quality_info, k + 1)
         IN  IF e.exc # "none" THEN e
             ELSE IF rest.exc # "none" THEN rest
             ELSE Ok(PyList(<<e.val>> \o rest.val.val))

\* the dictionary get_google_photos_links returns
Result(base_url, file_code, download_url, stream_urls) ==
    [kind |-> "result",
     val |-> [status |-> TRUE,
              host |-> "googlephoto",
              filecode |-> file_code,
              poster |-> Str(base_url) \o PosterSuffix,
              streams |-> stream_urls,
              download |-> download_url,
              vtt |-> None]]

(***************************************************************************)
(* get_google_photos_links, after the fetch.                               *)
(***************************************************************************)
\* except (KeyError, IndexError, TypeError, demjson3.JSONDecodeError)
Caught(exc) == exc \in {"KeyError", "IndexError", "TypeError", "JSONDecodeError"}

\* where a raised exception ends: the except clause, or the server's bare 500
Propagate(r) ==
    IF Caught(r.exc)
    THEN HTTPException(500, Detail("Could not parse data: ", r.msg))
    ELSE Unhandled(r.exc)

\* the try block from data.get('data', [])[0] to the return
ParseTree(data) ==
    LET d == DictGet(data, "data", PyList(<<>>))
        v == Index(d.val, 0)
        video_info_block == v.val
        b1 == Index(video_info_block, 1)
        base_url == Index(b1.val, 0)
        file_code == Index(video_info_block, 0)
        download_url == Index(d.val, 1)
        stream_data_block == ScanItems(video_info_block.val, 1, None)
        quality_info == Index(stream_data_block, 7)
        stream_urls == StreamUrls(base_url.val, quality_info.val.val, 1)
    IN  IF d.exc # "none" THEN Propagate(d)
        ELSE IF v.exc # "none" THEN Propagate(v)
        ELSE IF video_info_block.kind # "list" \/ Len(video_info_block.val) < 2
        THEN HTTPException(500, Detail("Invalid video info format", ""))
        ELSE IF b1.exc # "none" THEN Propagate(b1)
        ELSE IF base_url.exc # "none" THEN Propagate(base_url)
        ELSE IF file_code.exc # "none" THEN Propagate(file_code)
        ELSE IF download_url.exc # "none" THEN Propagate(download_url)
        ELSE IF ~Truthy(stream_data_block)
        THEN HTTPException(500, Detail("Stream data block not found", ""))
        ELSE IF quality_info.exc # "none" THEN Propagate(quality_info)
        ELSE IF stream_urls.exc # "none" THEN Propagate(stream_urls)
        ELSE Return(Result(base_url.val, file_code.val, download_url.val, stream_urls.val.val))

\* get_google_photos_links from the completion of the GET on
GetLinks(o) ==
    LET f == Fetch(o)
        data == Decode(f.val)
    IN  IF f.exc # "none"
        THEN IF IsRequestError(f.exc)
             THEN HTTPException(500, Detail("Could not fetch URL: ", f.msg))
             ELSE Unhandled(f.exc)
        ELSE IF ~Locate(f.val)
        THEN HTTPException(500, Detail("Could not find data block", ""))
        ELSE IF data.exc # "none" THEN Propagate(data)
        ELSE ParseTree(data.val)

\* extract_links after the await: if not result: raise; return result
ExtractLinksReturn(r) ==
    IF r.status = 200 /\ r.body.kind = "none"
    THEN HTTPException(500, Detail("Failed to extract links", ""))
    ELSE r

(***************************************************************************)
(* Inputs: URLs, decoded trees and remote behaviours.                      *)
(***************************************************************************)
SeqsUpTo(S, n) == UNION {[1..k -> S] : k \in 0..n}

UrlPieces == {"https://", "photos.", "app.goo.gl", "google.com"}
URLs == SeqsUpTo(UrlPieces, MaxUrlLen)
\* the URLs the concurrent requests choose from
SampleURLs == {<<>>, <<"google.com">>, GooGl, GoogleCom}

Zero == PyInt(0)
Chars(s) == PyStr(s)
FileCode == Chars(<<"F", "C", "1">>)
BaseUrl == Chars(<<"u", "/", "b">>)
Download == Chars(<<"u", "/", "d">>)
Bases == {BaseUrl, PyInt(5)}

Variant(code, w, h) == PyList(<<PyInt(code), PyInt(w), PyInt(h)>>)
Variants ==
    { Variant(37, 1920, 1080), Variant(22, 1280, 720), Variant(18, 640, 360),
      Variant(36, 320, 180), Variant(99, 800, 600),
      PyList(<<Chars(<<"2", "2">>), PyInt(1280), PyInt(720)>>),
      PyList(<<PyInt(37)>>), PyList(<<PyInt(99), PyInt(800)>>),
      PyList(<<>>), PyInt(5) }

\* a list of length 8 whose element 7 is the list quality_info
Block(quality_info) ==
    PyList(<<Zero, Zero, Zero, Zero, Zero, Zero, Zero, PyList(quality_info)>>)
QA == <<Variant(37, 1920, 1080)>>
QB == <<Variant(18, 640, 360)>>
Seven == PyList(<<Zero, Zero, Zero, Zero, Zero, Zero, Zero>>)
EightFlat == PyList(<<Zero, Zero, Zero, Zero, Zero, Zero, Zero, Zero>>)
Mapping(items) == PyDict(items)

ItemPool ==
    { Zero,
      Mapping(<<>>),
      Mapping(<< <<"k", Seven>> >>),
      Mapping(<< <<"k", EightFlat>> >>),
      Mapping(<< <<"k", Block(QA)>> >>),
      Mapping(<< <<"k", Block(QB)>> >>),
      Mapping(<< <<"k", EightFlat>>, <<"j", Block(QB)>> >>),
      Mapping(<< <<"k", Block(QA)>>, <<"j", Block(QB)>> >>),
      Block(QA) }

\* the argument of AF_initDataCallback, decoded
Tree(data) == PyDict(<< <<"key", Chars(<<"d", "s">>)>>, <<"data", data>> >>)
VideoInfo(file_code, b1, items) == PyList(<<file_code, b1>> \o items)
TreeOf(video_info_block) == Tree(PyList(<<video_info_block, Download>>))

QualityTrees ==
    { TreeOf(VideoInfo(FileCode, PyList(<<b, Zero>>), <<Mapping(<< <<"k", Block(q)>> >>)>>)) :
        b \in Bases, q \in SeqsUpTo(Variants, MaxQ) }
ScanTrees ==
    { TreeOf(VideoInfo(FileCode, PyList(<<BaseUrl, Zero>>), items)) :
        items \in SeqsUpTo(ItemPool, MaxItems) }
GoodInfo == VideoInfo(FileCode, PyList(<<BaseUrl, Zero>>), <<Mapping(<< <<"k", Block(QA)>> >>)>>)
ShapeTrees ==
    { PyList(<<GoodInfo, Download>>), PyInt(7), Chars(<<"d", "s">>), None,
      PyDict(<< <<"key", Chars(<<"d", "s">>)>> >>),
      Tree(PyInt(7)), Tree(None), Tree(Chars(<<>>)), Tree(Chars(<<"d", "s">>)),
      Tree(Mapping(<<>>)), Tree(PyList(<<>>)), Tree(PyList(<<GoodInfo>>)),
      TreeOf(PyInt(7)), TreeOf(Mapping(<<>>)), TreeOf(PyList(<<>>)),
      TreeOf(PyList(<<FileCode>>)),
      TreeOf(PyList(<<FileCode, PyInt(7)>>)),
      TreeOf(VideoInfo(FileCode, PyInt(7), <<Mapping(<< <<"k", Block(QA)>> >>)>>)),
      TreeOf(VideoInfo(FileCode, None, <<Mapping(<< <<"k", Block(QA)>> >>)>>)),
      TreeOf(VideoInfo(FileCode, PyList(<<>>), <<Mapping(<< <<"k", Block(QA)>> >>)>>)),
      TreeOf(VideoInfo(FileCode, Mapping(<<>>), <<Mapping(<< <<"k", Block(QA)>> >>)>>)),
      TreeOf(VideoInfo(FileCode, BaseUrl, <<Mapping(<< <<"k", Block(QA)>> >>)>>)),
      TreeOf(VideoInfo(Mapping(<< <<"k", Block(QB)>> >>), PyList(<<BaseUrl>>),
                       <<Mapping(<< <<"k", Block(QA)>> >>)>>)),
      TreeOf(VideoInfo(FileCode, Mapping(<< <<"k", Block(QB)>> >>), <<>>)) }
Trees == ShapeTrees \cup ScanTrees \cup QualityTrees

\* the tree of the specification's worked example
ExampleTree ==
    TreeOf(VideoInfo(FileCode, PyList(<<BaseUrl, Zero>>),
                     <<Mapping(<< <<"k", Block(<<Variant(37, 1920, 1080), Variant(18, 640, 360)>>)>> >>)>>))

Outcomes ==
    { FetchFailure("ConnectError"), FetchFailure("ReadTimeout"),
      StatusOnly(404), StatusOnly(302), PageNoMarker, PageMalformed,
      PageWith(ExampleTree), PageWith(TreeOf(VideoInfo(FileCode, PyList(<<BaseUrl>>), <<>>))) }

(***************************************************************************)
(* The state machine.                                                      *)
(***************************************************************************)
Idle == [pc |-> "idle", url |-> <<>>, fetches |-> 0, resp |-> NoResp]
Done(url, fetches, resp) == [pc |-> "done", url |-> url, fetches |-> fetches, resp |-> resp]

InitServer ==
    /\ reqs = [r \in 1..NReq |-> Idle]
    /\ client = "open"
    /\ server = "running"

\* concurrent requests: each host behaves in its own way
Init ==
    /\ InitServer
    /\ remote \in [Hosts -> Outcomes]

\* one request: every URL, every page
InitOne ==
    /\ InitServer
    /\ remote \in {[h \in Hosts |-> o] : o \in Outcomes \cup {PageWith(t) : t \in Trees}}

\* GET /extract?URL=url arrives: extract_links up to the await of the GET
Receive(r, url) ==
    /\ server = "running"
    /\ reqs[r].pc = "idle"
    /\ IF IsInvalidURL(url)
       THEN /\ reqs' = [reqs EXCEPT ![r] = Done(url, 0,
                           HTTPException(400, Detail("Invalid or missing Google Photos URL", "")))]
            /\ UNCHANGED client
       ELSE IF client = "closed"
       THEN \* http_client.get on a closed client raises RuntimeError before sending
            /\ reqs' = [reqs EXCEPT ![r] = Done(url, 0, Unhandled("RuntimeError"))]
            /\ client' = ManagedClientExit(client)
       ELSE /\ reqs' = [reqs EXCEPT ![r] = [pc |-> "awaiting", url |-> url,
                                           fetches |-> 1, resp |-> NoResp]]
            /\ UNCHANGED client
    /\ UNCHANGED <<server, remote>>

\* a faulty variant: the URL is kept in a variable the requests share
FetchCompleteSharedUrl(r) ==
    /\ reqs[r].pc = "awaiting"
    /\ reqs' = [reqs EXCEPT ![r] = Done(reqs[r].url, reqs[r].fetches,
                    ExtractLinksReturn(GetLinks(remote[HostOf(reqs[1].url)])))]
    /\ client' = ManagedClientExit(client)
    /\ UNCHANGED <<server, remote>>

\* the GET of request r completes: the rest of get_google_photos_links and extract_links
FetchComplete(r) ==
    /\ reqs[r].pc = "awaiting"
    /\ reqs' = [reqs EXCEPT ![r] = Done(reqs[r].url, reqs[r].fetches,
                    ExtractLinksReturn(GetLinks(remote[HostOf(reqs[r].url)])))]
    /\ client' = ManagedClientExit(client)
    /\ UNCHANGED <<server, remote>>

\* the server stops: in-flight requests have drained, then shutdown_event runs
shutdown_event ==
    /\ server = "running"
    /\ \A r \in 1..NReq : reqs[r].pc # "awaiting"
    /\ server' = "stopped"
    /\ client' = "closed"
    /\ UNCHANGED <<reqs, remote>>

Next ==
    \/ \E r \in 1..NReq, url \in SampleURLs : Receive(r, url)
    \/ \E r \in 1..NReq : FetchComplete(r)
    \/ shutdown_event

NextOne ==
    \/ \E url \in URLs : Receive(1, url)
    \/ FetchComplete(1)
    \/ shutdown_event

Spec == Init /\ [][Next]_vars
SpecOne == InitOne /\ [][NextOne]_vars

(***************************************************************************)
(* Vocabulary of the claims: the shape of a decoded tree, read off the     *)
(* tree itself.                                                            *)
(***************************************************************************)
Finished(r) == reqs[r].pc = "done"
\* request r fetched a page whose data block was found and decoded
Decoded(r) ==
    /\ Finished(r)
    /\ reqs[r].fetches = 1
    /\ LET o == remote[HostOf(reqs[r].url)]
       IN  o.err = "none" /\ o.status = 200 /\ o.page.marker /\ o.page.ok
TreeFor(r) == remote[HostOf(reqs[r].url)].page.tree

HasData(t) == t.kind = "dict" /\ \E j \in 1..Len(t.val) : t.val[j][1] = "data"
DataField(t) == t.val[CHOOSE j \in 1..Len(t.val) : t.val[j][1] = "data"][2]
Subscript(v, i) == IF v.kind = "str" THEN PyStr(<<v.val[i + 1]>>) ELSE v.val[i + 1]
Indexable(v, n) == v.kind \in {"list", "str"} /\ Len(v.val) >= n

\* steps 1 to 3 of the extraction succeed on t
HeadOk(t) ==
    /\ HasData(t)
    /\ Indexable(DataField(t), 2)
    /\ DataField(t).kind = "list"
    /\ LET vib == DataField(t).val[1]
       IN  vib.kind = "list" /\ Len(vib.val) >= 2 /\ Indexable(vib.val[2], 1)
InfoBlock(t) == DataField(t).val[1]
BaseOf(t) == Subscript(InfoBlock(t).val[2], 0)

\* the places <<i, j>> of video_info_block where value j of mapping i qualifies
QualifyingPlaces(vib) ==
    { p \in UNION {{<<i, j>> : j \in 1..Len(vib.val[i].val)} :
                      i \in {k \in 1..Len(vib.val) : vib.val[k].kind = "dict"}} :
        LET value == vib.val[p[1]].val[p[2]][2]
        IN  value.kind = "list" /\ Len(value.val) >= 8 /\ value.val[8].kind = "list" }
FirstPlace(vib) ==
    CHOOSE p \in QualifyingPlaces(vib) :
        \A q \in QualifyingPlaces(vib) : p[1] < q[1] \/ (p[1] = q[1] /\ p[2] <= q[2])
\* quality_info of the first qualifying value
FirstQuality(vib) == vib.val[FirstPlace(vib)[1]].val[FirstPlace(vib)[2]][2].val[8].val
Found(t) == HeadOk(t) /\ QualifyingPlaces(InfoBlock(t)) # {}

CodeText(q) == Str(Subscript(q, 0))
InTable(text) ==
    text \in {<<"3", "7">>, <<"2", "2">>, <<"1", "8">>, <<"3", "6">>}
TableLabel(text) ==
    CASE text = <<"3", "7">> -> <<"1", "0", "8", "0", "p">>
      [] text = <<"2", "2">> -> <<"7", "2", "0", "p">>
      [] text = <<"1", "8">> -> <<"3", "6", "0", "p">>
      [] text = <<"3", "6">> -> <<"1", "8", "0", "p">>

ParseStage == {"Could not parse data: ", "Invalid video info format", "Stream data block not found"}

(***************************************************************************)
(* Claims.                                                                 *)
(***************************************************************************)
NeitherHost(url) ==
    ~\E i \in 1..(Len(url) - 1) :
        url[i] = "photos." /\ url[i + 1] \in {"app.goo.gl", "google.com"}

\* C1: a request whose URL contains neither "photos.app.goo.gl" nor
\* "photos.google.com" (the empty URL included) is answered 400 "Invalid or
\* missing Google Photos URL", and no fetch is issued for it.
C1_InvalidUrlRejected ==
    \A r \in 1..NReq :
        (reqs[r].pc # "idle" /\ NeitherHost(reqs[r].url)) =>
            /\ Finished(r)
            /\ reqs[r].resp.status = 400
            /\ reqs[r].resp.detail = Detail("Invalid or missing Google Photos URL", "")
            /\ reqs[r].fetches = 0

\* a non-empty URL that names "photos." but neither host has been rejected
C1_Witness ==
    \E r \in 1..NReq :
        /\ Finished(r)
        /\ Len(reqs[r].url) = 2
        /\ reqs[r].url[1] = "photos."
        /\ NeitherHost(reqs[r].url)
        /\ reqs[r].resp.status = 400

FetchFailed(o) == o.err # "none" \/ o.status < 200 \/ o.status >= 300

\* C2: a request that passed validation and whose fetch failed (network
\* failure, timeout or non-2xx status) ends, after that one fetch, in a 500
\* whose detail starts "Could not fetch URL".
C2_FetchFailureNamesFetchStage ==
    \A r \in 1..NReq :
        (Finished(r) /\ reqs[r].fetches >= 1 /\ FetchFailed(remote[HostOf(reqs[r].url)])) =>
            /\ reqs[r].fetches = 1
            /\ reqs[r].resp.status = 500
            /\ reqs[r].resp.detail.text = "Could not fetch URL: "

\* a quality variant that cannot be indexed, or is too short for code, width and height
BadVariant(q) == ~Indexable(q, 3)

\* the decoded tree misses the expected shape at one of the extraction steps
ShapeMismatch(t) ==
    IF t.kind # "dict" THEN TRUE
    ELSE IF ~HasData(t) THEN TRUE
    ELSE IF DataField(t).kind # "list" \/ Len(DataField(t).val) < 2 THEN TRUE
    ELSE IF InfoBlock(t).kind # "list" \/ Len(InfoBlock(t).val) < 2 THEN TRUE
    ELSE IF ~Indexable(InfoBlock(t).val[2], 0) THEN TRUE
    ELSE /\ Found(t)
         /\ \E k \in 1..Len(FirstQuality(InfoBlock(t))) :
                BadVariant(FirstQuality(InfoBlock(t))[k])

\* C3: a decoded tree that misses the expected shape at any extraction step
\* ends in a 500 whose detail names the parse stage, never in a result and
\* never in an error without a detail.
C3_ShapeMismatchIsParseError ==
    \A r \in 1..NReq :
        (Decoded(r) /\ ShapeMismatch(TreeFor(r))) =>
            /\ reqs[r].resp.status = 500
            /\ reqs[r].resp.body = None
            /\ reqs[r].resp.detail.text \in ParseStage

\* C4: a successful extraction has one stream per element of quality_info, in
\* the same order; an empty quality_info gives a success with no streams.
C4_OneStreamPerVariant ==
    \A r \in 1..NReq :
        (Decoded(r) /\ Found(TreeFor(r))) =>
            LET quality_info == FirstQuality(InfoBlock(TreeFor(r)))
                streams == reqs[r].resp.body.val.streams
            IN  /\ quality_info = <<>> => reqs[r].resp.status = 200
                /\ reqs[r].resp.status = 200 =>
                      /\ Len(streams) = Len(quality_info)
                      /\ \A i \in 1..Len(quality_info) :
                            streams[i].val.url =
                                Str(BaseOf(TreeFor(r))) \o <<"=", "m">> \o CodeText(quality_info[i])

\* an extraction over two variants with different codes has succeeded
C4_Witness ==
    \E r \in 1..NReq :
        /\ Decoded(r)
        /\ reqs[r].resp.status = 200
        /\ Len(reqs[r].resp.body.val.streams) = 2
        /\ reqs[r].resp.body.val.streams[1] # reqs[r].resp.body.val.streams[2]

\* an extraction over an empty quality_info has succeeded
C4_WitnessEmpty ==
    \E r \in 1..NReq :
        /\ Decoded(r)
        /\ reqs[r].resp.status = 200
        /\ reqs[r].resp.body.val.streams = <<>>

\* every variant has a code, and a width and a height unless its code is in the table
LabelInputsPresent(quality_info) ==
    \A k \in 1..Len(quality_info) :
        /\ Indexable(quality_info[k], 1)
        /\ InTable(CodeText(quality_info[k])) \/ Indexable(quality_info[k], 3)

\* C5: the label of a variant is decided by its code alone when the code is in
\* the table, its width and height being read only otherwise; building the
\* response from the extracted fields cannot fail.
C5_LabelByCodeAlone ==
    \A r \in 1..NReq :
        (Decoded(r) /\ Found(TreeFor(r))
            /\ LabelInputsPresent(FirstQuality(InfoBlock(TreeFor(r))))) =>
            LET quality_info == FirstQuality(InfoBlock(TreeFor(r)))
                streams == reqs[r].resp.body.val.streams
            IN  /\ reqs[r].resp.status = 200
                /\ \A k \in 1..Len(quality_info) :
                      streams[k].val.label =
                          IF InTable(CodeText(quality_info[k]))
                          THEN TableLabel(CodeText(quality_info[k]))
                          ELSE Resolution \o Str(Subscript(quality_info[k], 1))
                                   \o <<"x">> \o Str(Subscript(quality_info[k], 2))

\* C6: in a successful extraction, with base_url = data[0][1][0], poster is
\* base_url followed by "=w1920-h1080-no", each stream's url is base_url
\* followed by "=m" and the variant's code, filecode is data[0][0], download
\* is data[1], status is true, host is "googlephoto" and vtt is null.
C6_ResultFields ==
    \A r \in 1..NReq :
        (Decoded(r) /\ reqs[r].resp.status = 200) =>
            LET t == TreeFor(r)
                result == reqs[r].resp.body.val
                base == Str(Subscript(Subscript(Subscript(DataField(t), 0), 1), 0))
                quality_info == FirstQuality(InfoBlock(t))
            IN  /\ result.poster = base \o
                      <<"=", "w", "1", "9", "2", "0", "-", "h", "1", "0", "8", "0", "-", "n", "o">>
                /\ Len(result.streams) = Len(quality_info)
                /\ \A i \in 1..Len(result.streams) :
                      result.streams[i].val.url = base \o <<"=", "m">> \o CodeText(quality_info[i])
                /\ result.filecode = Subscript(Subscript(DataField(t), 0), 0)
                /\ result.download = Subscript(DataField(t), 1)
                /\ result.status = TRUE
                /\ result.host = "googlephoto"
                /\ result.vtt = None

\* a success whose base_url is not a string and whose variant's code has a label
C6_Witness ==
    \E r \in 1..NReq :
        /\ Decoded(r)
        /\ reqs[r].resp.status = 200
        /\ BaseOf(TreeFor(r)).kind = "int"
        /\ Len(reqs[r].resp.body.val.streams) >= 1
        /\ reqs[r].resp.body.val.streams[1].val.label = <<"7", "2", "0", "p">>

\* video_info_block exists: data.get('data', [])[0] evaluates
HasInfoBlock(t) == HasData(t) /\ Indexable(DataField(t), 1)
NoneQualifies(t) ==
    LET vib == Subscript(DataField(t), 0)
    IN  vib.kind = "list" => QualifyingPlaces(vib) = {}
StreamBlockNotFound == HTTPException(500, Detail("Stream data block not found", ""))

\* C7 as stated: whenever no mapping-typed element of video_info_block has a
\* qualifying value, the response is the 500 "Stream data block not found".
C7_NoBlockAlwaysNamed ==
    \A r \in 1..NReq :
        (Decoded(r) /\ HasInfoBlock(TreeFor(r)) /\ NoneQualifies(TreeFor(r))) =>
            reqs[r].resp = StreamBlockNotFound

\* C7 as amended: when steps 1 to 3 succeed and no mapping-typed element of
\* video_info_block has a qualifying value, the response is the 500 "Stream
\* data block not found" and carries no result.
C7_NoBlockAfterHead ==
    \A r \in 1..NReq :
        (Decoded(r) /\ HeadOk(TreeFor(r)) /\ NoneQualifies(TreeFor(r))) =>
            reqs[r].resp = StreamBlockNotFound

\* the scan ran over a block holding a bare qualifying list and a mapping, and found nothing
C7_Witness ==
    \E r \in 1..NReq :
        /\ Decoded(r)
        /\ HeadOk(TreeFor(r))
        /\ NoneQualifies(TreeFor(r))
        /\ Len(InfoBlock(TreeFor(r)).val) = 4
        /\ InfoBlock(TreeFor(r)).val[3].kind = "list"
        /\ InfoBlock(TreeFor(r)).val[4].kind = "dict"
        /\ reqs[r].resp = StreamBlockNotFound

\* C9: when several values qualify, the stream data block is the first one in
\* scan order (elements by index, values by insertion order): the streams are
\* built from it alone, and the scan never reports the block missing.
C9_FirstMatchWins ==
    \A r \in 1..NReq :
        (Decoded(r) /\ Found(TreeFor(r))) =>
            LET quality_info == FirstQuality(InfoBlock(TreeFor(r)))
            IN  /\ reqs[r].resp # StreamBlockNotFound
                /\ reqs[r].resp.status = 200 =>
                      /\ Len(reqs[r].resp.body.val.streams) = Len(quality_info)
                      /\ \A i \in 1..Len(quality_info) :
                            LET e == reqs[r].resp.body.val.streams[i].val
                                code == CodeText(quality_info[i])
                            IN  /\ e.url = Str(BaseOf(TreeFor(r))) \o <<"=", "m">> \o code
                                /\ InTable(code) => e.label = TableLabel(code)

\* two values with different quality lists qualify (in one mapping), and the
\* extraction succeeded
C9_Witness ==
    \E r \in 1..NReq :
        /\ Decoded(r)
        /\ Found(TreeFor(r))
        /\ reqs[r].resp.status = 200
        /\ \E p, q \in QualifyingPlaces(InfoBlock(TreeFor(r))) :
              /\ p[1] = q[1] /\ p[2] < q[2]
              /\ LET vib == InfoBlock(TreeFor(r))
                 IN  vib.val[p[1]].val[p[2]][2] # vib.val[q[1]].val[q[2]][2]

\* two values in different elements qualify, and the extraction succeeded
C9_WitnessAcross ==
    \E r \in 1..NReq :
        /\ Decoded(r)
        /\ Found(TreeFor(r))
        /\ reqs[r].resp.status = 200
        /\ \E p, q \in QualifyingPlaces(InfoBlock(TreeFor(r))) : p[1] < q[1]

\* C8: with the remote behaviour fixed, two calls with the same URL get
\* identical responses: handling one request changes nothing a later one reads.
C8_Idempotent ==
    \A r1, r2 \in 1..NReq :
        (Finished(r1) /\ Finished(r2) /\ reqs[r1].url = reqs[r2].url) =>
            reqs[r1].resp = reqs[r2].resp

\* two calls with the same accepted URL have both been answered with a result
C8_Witness ==
    \E r1, r2 \in 1..NReq :
        /\ r1 # r2
        /\ Finished(r1) /\ Finished(r2)
        /\ reqs[r1].url = reqs[r2].url
        /\ reqs[r1].resp.status = 200
        /\ reqs[r2].resp.status = 200

\* the response a request for url gets when it runs alone
Alone(url) ==
    IF NeitherHost(url)
    THEN HTTPException(400, Detail("Invalid or missing Google Photos URL", ""))
    ELSE ExtractLinksReturn(GetLinks(remote[HostOf(url)]))

\* C10: under every interleaving each request's response is the one it would
\* get running alone, whatever became of the other requests, and the shared
\* pool is closed by the shutdown hook only.
C10_Independent ==
    /\ \A r \in 1..NReq : Finished(r) => reqs[r].resp = Alone(reqs[r].url)
    /\ client = "closed" => server = "stopped"

\* one request has failed at its fetch, another, for the other host, has
\* been answered with a result
C10_Witness ==
    \E r1, r2 \in 1..NReq :
        /\ Finished(r1) /\ Finished(r2)
        /\ reqs[r1].url # reqs[r2].url
        /\ reqs[r1].resp.detail.text = "Could not fetch URL: "
        /\ reqs[r1].resp.detail.arg = "ReadTimeout"
        /\ reqs[r2].resp.status = 200

====
